---- MODULE Spec2Model ----
(***************************************************************************)
(* Model of the Anglo-Saxon dictionary tool:                               *)
(*   - parser/src/lib.rs : Entry::try_from, parse, Dictionary::search,     *)
(*                         Dictionary::define                              *)
(*   - cli/src/main.rs   : main (loader task, oneshot channel, select loop) *)
(* Strings are sequences of one-character strings, so that trim, replace   *)
(* and starts_with are computed rather than assumed.                       *)
(***************************************************************************)
EXTENDS Integers, Sequences, FiniteSets, TLC

VARIABLES
    \* ---- parse (parser/src/lib.rs) ----
    document,    \* the <p> nodes of the document, each the sequence of its child nodes
    pc,          \* "idle" | "read" | "iterate" | "done": position inside parse
    pos,         \* number of paragraphs the iterator chain has consumed
    entries,     \* the Vec<Entry> collected so far
    result,      \* "none" | "Ok" | "Err" | "panic": how parse ended
    pass,        \* 1 or 2: which run of parse over the same document
    firstPass,   \* <<result, entries>> of the first run, once a second one started
    \* ---- Dictionary (parser/src/lib.rs) ----
    index,       \* the documents committed to the index, in insertion order
    lastOp,      \* "none" | "search" | "define"
    lastQuery,   \* the query string of the last call
    lastLimit,   \* the limit argument of the last search (NoLimit for None)
    lastResult,  \* [status, hits] of the last call
    \* ---- main (cli/src/main.rs) ----
    source,      \* "url" | "file" | "none": which of --url / --file was given
    command,     \* "search" | "define"
    term,        \* the term argument
    loaderPc,    \* "start" | "parsing" | "sent" | "panicked": the spawned task
    chan,        \* "empty" | "value" | "closed": the oneshot channel
    dict,        \* the Dictionary travelling through the channel
    mainPc,      \* "select" | "done" | "panicked": the main loop
    tickReady,   \* whether the interval's next tick is due
    queries,     \* number of queries the main loop executed
    output,      \* what main reported: "none" | "results" | "failed"
    exitCode     \* -1 while running, then the process exit status

parseVars == <<document, pc, pos, entries, result, pass, firstPass>>
indexVars == <<index, lastOp, lastQuery, lastLimit, lastResult>>
cliVars == <<source, command, term, loaderPc, chan, dict, mainPc,
             tickReady, queries, output, exitCode>>
vars == <<parseVars, indexVars, cliVars>>

(***************************************************************************)
(* Bounds.                                                                 *)
(***************************************************************************)
MaxChildren == 3
MaxParas == 3
MaxEntries == 11
MaxLimit == 3

(***************************************************************************)
(* Strings.                                                                *)
(***************************************************************************)
SP == " "
NL == "\n"

\* char::is_whitespace, over the characters the model uses
IsWhitespace(c) == c \in {SP, NL}

RECURSIVE TrimStart(_)
TrimStart(s) ==
    IF s = <<>> THEN <<>>
    ELSE IF IsWhitespace(Head(s)) THEN TrimStart(Tail(s)) ELSE s

RECURSIVE TrimEnd(_)
TrimEnd(s) ==
    IF s = <<>> THEN <<>>
    ELSE IF IsWhitespace(s[Len(s)]) THEN TrimEnd(SubSeq(s, 1, Len(s) - 1)) ELSE s

\* str::trim
Trim(s) == TrimEnd(TrimStart(s))

\* a variant that keeps the newlines
ReplaceNothing(s) == s

\* txt_str.replace("\n", " ")
RECURSIVE ReplaceNewline(_)
ReplaceNewline(s) ==
    IF s = <<>> THEN <<>>
    ELSE <<IF Head(s) = NL THEN SP ELSE Head(s)>> \o ReplaceNewline(Tail(s))

\* str::starts_with
StartsWith(s, prefix) ==
    /\ Len(s) >= Len(prefix)
    /\ SubSeq(s, 1, Len(prefix)) = prefix

\* the marker prefix "word_"
WordPrefix == <<"w", "o", "r", "d", "_">>

(***************************************************************************)
(* The HTML tree as scraper exposes it.                                    *)
(***************************************************************************)
NoNode == [kind |-> "none", tag |-> "", hasId |-> FALSE, id |-> <<>>,
           text |-> <<>>, children |-> <<>>]

TextNode(t) == [kind |-> "text", tag |-> "", hasId |-> FALSE, id |-> <<>>,
                text |-> t, children |-> <<>>]

Element(tag, children) ==
    [kind |-> "element", tag |-> tag, hasId |-> FALSE, id |-> <<>>,
     text |-> <<>>, children |-> children]

ElementWithId(tag, id, children) ==
    [kind |-> "element", tag |-> tag, hasId |-> TRUE, id |-> id,
     text |-> <<>>, children |-> children]

\* NodeRef::first_child
FirstChild(n) == IF n.children = <<>> THEN NoNode ELSE n.children[1]

\* paragraph_el.select(&Selector::parse("b")).take(1).next(): the first <b>
\* among the descendants, in document order
RECURSIVE FirstBold(_)
FirstBold(nodes) ==
    IF nodes = <<>> THEN NoNode
    ELSE LET h == Head(nodes)
         IN IF h.kind = "element" /\ h.tag = "b" THEN h
            ELSE LET inner == FirstBold(h.children)
                 IN IF inner # NoNode THEN inner ELSE FirstBold(Tail(nodes))

(***************************************************************************)
(* Entry::try_from.                                                        *)
(***************************************************************************)
NoEntry == [word |-> <<>>, definition |-> <<>>]

\* the body of `for child in paragraph_el.children()`, folded over the children
RECURSIVE ChildrenLoop(_, _, _)
ChildrenLoop(children, word_el, acc) ==
    IF children = <<>> THEN acc
    ELSE LET child == Head(children)
             bold_el == FirstChild(word_el)
             acc1 == IF child.kind = "element" /\ child.hasId
                     THEN [acc EXCEPT
                             !.id = IF StartsWith(child.id, WordPrefix)
                                    THEN child.id ELSE @,
                             !.word = IF bold_el.kind = "text"
                                      THEN Trim(bold_el.text) ELSE @]
                     ELSE acc
             txt == FirstChild(child)
             acc2 == IF txt.kind = "text"
                     THEN [acc1 EXCEPT
                             !.definition = @ \o ReplaceNewline(txt.text) \o <<SP>>]
                     ELSE acc1
         IN ChildrenLoop(Tail(children), word_el, acc2)

\* Entry::try_from(paragraph_el): "panic" is the unwrap of a missing <b>
TryFrom(paragraph) ==
    LET word_el == FirstBold(paragraph)
    IN IF word_el = NoNode
       THEN [status |-> "panic", entry |-> NoEntry]
       ELSE LET acc == ChildrenLoop(paragraph, word_el,
                          [id |-> <<>>, word |-> <<>>, definition |-> <<>>])
            IN [status |-> "Ok",
                entry |-> [word |-> acc.word,
                           definition |-> Trim(acc.definition)]]

(***************************************************************************)
(* parse: the two filters of the iterator chain.                           *)
(***************************************************************************)
\* .filter(|n| n.has_children())
HasChildren(paragraph) == paragraph # <<>>

\* a variant that accepts any id attribute
AnyIdFilter(paragraph) ==
    paragraph[1].kind = "element" /\ paragraph[1].hasId

\* .filter(|n| match n.first_child().unwrap().value() { ... })
FirstChildFilter(paragraph) ==
    /\ paragraph[1].kind = "element"
    /\ paragraph[1].hasId
    /\ StartsWith(paragraph[1].id, WordPrefix)

(***************************************************************************)
(* Input documents.                                                        *)
(***************************************************************************)
\* all sequences over S of length 0..n
RECURSIVE SeqsUpTo(_, _)
SeqsUpTo(S, n) ==
    IF n = 0 THEN {<<>>}
    ELSE LET shorter == SeqsUpTo(S, n - 1)
         IN shorter \cup {Append(s, x) : s \in {t \in shorter : Len(t) = n - 1}, x \in S}

IdWord1 == WordPrefix \o <<"1">>
IdBare == <<"w", "o", "r", "d">>
IdInfix == <<"x">> \o WordPrefix

\* child nodes a paragraph is built from
Nodes ==
    { TextNode(<<"a">>),
      ElementWithId("a", IdWord1, <<>>),
      ElementWithId("a", IdWord1, <<TextNode(<<"c", NL>>)>>),
      ElementWithId("a", IdBare, <<>>),
      ElementWithId("a", IdInfix, <<>>),
      Element("a", <<>>),
      Element("b", <<>>),
      Element("b", <<Element("i", <<TextNode(<<"a">>)>>)>>),
      Element("b", <<TextNode(<<"a">>)>>),
      Element("b", <<TextNode(<<SP>>)>>),
      Element("b", <<TextNode(<<SP, "b", NL>>)>>),
      Element("i", <<TextNode(<<"a", NL, "b">>)>>),
      Element("i", <<TextNode(<<NL>>)>>),
      ElementWithId("span", IdWord1, <<Element("b", <<TextNode(<<"a">>)>>)>>) }

Paragraphs == SeqsUpTo(Nodes, MaxChildren)

\* paragraph shapes of a dictionary page: an empty paragraph, a running
\* header, a paragraph whose anchor lacks the marker, two entries, and an
\* entry without a headword
SampleParagraphs ==
    { <<>>,
      <<TextNode(<<"a">>), Element("b", <<TextNode(<<"a">>)>>)>>,
      <<ElementWithId("a", IdBare, <<>>), Element("b", <<TextNode(<<"a">>)>>)>>,
      <<ElementWithId("a", IdWord1, <<>>), Element("b", <<TextNode(<<"a">>)>>),
        Element("i", <<TextNode(<<"a", NL, "b">>)>>)>>,
      <<ElementWithId("a", IdWord1, <<>>), Element("b", <<TextNode(<<SP, "b", NL>>)>>)>>,
      <<ElementWithId("a", IdWord1, <<>>), Element("i", <<TextNode(<<NL>>)>>)>> }

Documents ==
    {<<p>> : p \in Paragraphs} \cup SeqsUpTo(SampleParagraphs, MaxParas)

(***************************************************************************)
(* parse, one step per element of the iterator chain.                      *)
(***************************************************************************)
NoLimit == -1
NoHits == [status |-> "none", hits |-> <<>>]

IndexIdle ==
    /\ index = <<>>
    /\ lastOp = "none"
    /\ lastQuery = <<>>
    /\ lastLimit = NoLimit
    /\ lastResult = NoHits

CliIdle ==
    /\ source = "none"
    /\ command = "search"
    /\ term = <<>>
    /\ loaderPc = "start"
    /\ chan = "empty"
    /\ dict = <<>>
    /\ mainPc = "select"
    /\ tickReady = TRUE
    /\ queries = 0
    /\ output = "none"
    /\ exitCode = -1

ParseIdle ==
    /\ document = <<>>
    /\ pc = "idle"
    /\ pos = 0
    /\ entries = <<>>
    /\ result = "none"
    /\ pass = 1
    /\ firstPass = <<"none", <<>>>>

Init ==
    /\ document \in Documents
    /\ pc = "read"
    /\ pos = 0
    /\ entries = <<>>
    /\ result = "none"
    /\ pass = 1
    /\ firstPass = <<"none", <<>>>>
    /\ IndexIdle
    /\ CliIdle

\* std::fs::read_to_string(&file_path)? fails: parse returns the error
ReadFails ==
    /\ pc = "read"
    /\ pc' = "done"
    /\ result' = "Err"
    /\ UNCHANGED <<document, pos, entries, pass, firstPass, indexVars, cliVars>>

\* the file is read and Html::parse_document builds the tree
ReadSucceeds ==
    /\ pc = "read"
    /\ pc' = "iterate"
    /\ UNCHANGED <<document, pos, entries, result, pass, firstPass, indexVars, cliVars>>

\* a variant that drops repeated headwords and collects in reverse
NextParagraphSorted ==
    /\ pc = "iterate"
    /\ pos < Len(document)
    /\ LET paragraph == document[pos + 1]
       IN IF ~(HasChildren(paragraph) /\ FirstChildFilter(paragraph))
          THEN /\ pos' = pos + 1
               /\ UNCHANGED <<pc, entries, result>>
          ELSE LET converted == TryFrom(paragraph)
               IN IF converted.status = "Ok"
                  THEN /\ pos' = pos + 1
                       /\ entries' = IF \E i \in 1..Len(entries) :
                                            entries[i].word = converted.entry.word
                                     THEN entries
                                     ELSE <<converted.entry>> \o entries
                       /\ UNCHANGED <<pc, result>>
                  ELSE /\ pc' = "done"
                       /\ result' = "panic"
                       /\ UNCHANGED <<pos, entries>>
    /\ UNCHANGED <<document, pass, firstPass, indexVars, cliVars>>

\* one <p> through .filter(has_children).filter(first child).map(try_into):
\* skipped, collected, or the expect on try_into panics
NextParagraph ==
    /\ pc = "iterate"
    /\ pos < Len(document)
    /\ LET paragraph == document[pos + 1]
       IN IF ~(HasChildren(paragraph) /\ FirstChildFilter(paragraph))
          THEN /\ pos' = pos + 1
               /\ UNCHANGED <<pc, entries, result>>
          ELSE LET converted == TryFrom(paragraph)
               IN IF converted.status = "Ok"
                  THEN /\ pos' = pos + 1
                       /\ entries' = Append(entries, converted.entry)
                       /\ UNCHANGED <<pc, result>>
                  ELSE /\ pc' = "done"
                       /\ result' = "panic"
                       /\ UNCHANGED <<pos, entries>>
    /\ UNCHANGED <<document, pass, firstPass, indexVars, cliVars>>

\* .collect() ends and Ok(entries.try_into()?) builds the Dictionary
BuildDictionary ==
    /\ pc = "iterate"
    /\ pos = Len(document)
    /\ pc' = "done"
    /\ result' = "Ok"
    /\ index' = entries
    /\ UNCHANGED <<document, pos, entries, pass, firstPass,
                   lastOp, lastQuery, lastLimit, lastResult, cliVars>>

\* parse is called again on the same file
ParseAgain ==
    /\ pc = "done"
    /\ pass = 1
    /\ result # "Err"
    /\ pass' = 2
    /\ firstPass' = <<result, entries>>
    /\ pc' = "iterate"
    /\ pos' = 0
    /\ entries' = <<>>
    /\ result' = "none"
    /\ index' = <<>>
    /\ UNCHANGED <<document, lastOp, lastQuery, lastLimit, lastResult, cliVars>>

Next ==
    \/ ReadFails
    \/ ReadSucceeds
    \/ NextParagraph
    \/ BuildDictionary
    \/ ParseAgain

Spec == Init /\ [][Next]_vars

(***************************************************************************)
(* Properties of parse and Entry::try_from.                                *)
(***************************************************************************)
\* the selection rule as stated: the first child node is an element whose id
\* attribute begins with "word_"
ClaimQualifies(paragraph) ==
    /\ Len(paragraph) >= 1
    /\ paragraph[1].kind = "element"
    /\ paragraph[1].hasId
    /\ Len(paragraph[1].id) >= 5
    /\ paragraph[1].id[1] = "w"
    /\ paragraph[1].id[2] = "o"
    /\ paragraph[1].id[3] = "r"
    /\ paragraph[1].id[4] = "d"
    /\ paragraph[1].id[5] = "_"

\* the nodes below a sequence of nodes
RECURSIVE Descendants(_)
Descendants(nodes) ==
    UNION {{nodes[i]} \cup Descendants(nodes[i].children) : i \in 1..Len(nodes)}

ClaimHasBold(paragraph) ==
    \E n \in Descendants(paragraph) : n.kind = "element" /\ n.tag = "b"

QualifyingUpTo(n) == {i \in 1..n : ClaimQualifies(document[i])}

\* the position in the document of the k-th qualifying paragraph
KthQualifying(k) ==
    CHOOSE i \in QualifyingUpTo(Len(document)) : Cardinality(QualifyingUpTo(i)) = k

\* C2: a qualifying paragraph without a <b> makes parse return an error value:
\* no panic, no entry with an empty word, no partial dictionary
C2_NoBoldReturnsError ==
    (/\ pc = "done"
     /\ \E i \in 1..Len(document) :
           ClaimQualifies(document[i]) /\ ~ClaimHasBold(document[i]))
    => result = "Err"

\* C3: every retained entry has a non-empty word
C3_WordNonEmpty ==
    /\ \A k \in 1..Len(entries) : entries[k].word # <<>>
    /\ \A k \in 1..Len(index) : index[k].word # <<>>

\* C4: a paragraph is handed to the conversion exactly when it qualifies; the
\* others are passed over and never end the run
C4_SelectionRule ==
    /\ pos <= Len(document)
    /\ Len(entries) = Cardinality(QualifyingUpTo(pos))
    /\ result = "panic" => pos < Len(document) /\ ClaimQualifies(document[pos + 1])
    /\ result = "Err" => pos = 0 /\ entries = <<>>
    /\ result = "Ok" => pos = Len(document)

C4_Witness ==
    /\ result = "Ok"
    /\ Len(document) = 3
    /\ Len(entries) = 1
    /\ \E i \in 1..3 : document[i] = <<>>
    /\ \E i \in 1..3 : Len(document[i]) > 0 /\ document[i][1].kind = "text"

\* the stated definition text of a paragraph
SpaceForNewline(s) == [i \in 1..Len(s) |-> IF s[i] = NL THEN SP ELSE s[i]]

RECURSIVE ClaimConcat(_, _)
ClaimConcat(paragraph, i) ==
    IF i > Len(paragraph) THEN <<>>
    ELSE LET c == paragraph[i]
             piece == IF Len(c.children) > 0 /\ c.children[1].kind = "text"
                      THEN SpaceForNewline(c.children[1].text) \o <<SP>>
                      ELSE <<>>
         IN piece \o ClaimConcat(paragraph, i + 1)

Stripped(s) ==
    LET solid == {i \in 1..Len(s) : s[i] \notin {SP, NL}}
    IN IF solid = {} THEN <<>>
       ELSE SubSeq(s, CHOOSE i \in solid : \A j \in solid : i <= j,
                      CHOOSE i \in solid : \A j \in solid : i >= j)

SameString(s, t) == Len(s) = Len(t) /\ \A i \in 1..Len(s) : s[i] = t[i]

\* C8: the definition is the trimmed concatenation, over the direct children
\* whose first child is a text node, of the text with newlines turned into
\* spaces plus one space; it holds no newline and no outer whitespace
C8_Definition ==
    \A k \in 1..Len(entries) :
        LET d == entries[k].definition
        IN /\ SameString(d, Stripped(ClaimConcat(document[KthQualifying(k)], 1)))
           /\ \A i \in 1..Len(d) : d[i] # NL
           /\ d # <<>> => d[1] # SP /\ d[Len(d)] # SP

C8_Witness ==
    /\ result = "Ok"
    /\ Len(document) = 1
    /\ Len(entries) = 1
    /\ \E i \in 1..Len(document[1]) :
          /\ Len(document[1][i].children) > 0
          /\ document[1][i].children[1].kind = "text"
          /\ \E j \in 2..(Len(document[1][i].children[1].text) - 1) :
                document[1][i].children[1].text[j] = NL
    /\ \E i \in 1..Len(document[1]) :
          /\ Len(document[1][i].children) > 0
          /\ document[1][i].children[1].kind = "text"
          /\ document[1][i].children[1].text[1] = SP
    /\ Len(entries[1].definition) >= 5

\* C9: the entries are those of the qualifying paragraphs, one each, in
\* document order, repeated headwords kept; the index receives that sequence;
\* a second run over the same document ends as the first did
C9_DocumentOrder ==
    /\ \A k \in 1..Len(entries) :
          entries[k] = TryFrom(document[KthQualifying(k)]).entry
    /\ result = "Ok" =>
          /\ Len(entries) = Cardinality(QualifyingUpTo(Len(document)))
          /\ index = entries
    /\ pass = 2 /\ pc = "done" => firstPass = <<result, entries>>

C9_Witness ==
    /\ pass = 2
    /\ result = "Ok"
    /\ Len(entries) = 3
    /\ entries[1] = entries[3]
    /\ entries[1].word # entries[2].word
    /\ Len(document) = 3

(***************************************************************************)
(* Dictionary: the index, the query parser and the collector.              *)
(***************************************************************************)
DefaultLimit == 10
DefineLimit == 10

FieldWord == <<"w", "o", "r", "d">>
FieldDefinition == <<"d", "e", "f", "i", "n", "i", "t", "i", "o", "n">>
QUOTE == "\""
COLON == ":"

\* the tokens of a TEXT field: maximal runs of non-separator characters
RECURSIVE Tokenize(_, _)
Tokenize(s, cur) ==
    IF s = <<>> THEN (IF cur = <<>> THEN <<>> ELSE <<cur>>)
    ELSE IF Head(s) \in {SP, NL}
         THEN (IF cur = <<>> THEN <<>> ELSE <<cur>>) \o Tokenize(Tail(s), <<>>)
         ELSE Tokenize(Tail(s), Append(cur, Head(s)))

RECURSIVE Without(_, _)
Without(s, c) ==
    IF s = <<>> THEN <<>>
    ELSE (IF Head(s) = c THEN <<>> ELSE <<Head(s)>>) \o Without(Tail(s), c)

\* query_parser.parse_query(&query): a term over the default fields, a term
\* with an explicit field ("field:term"), or a syntax error
ParseQuery(q, defaultFields) ==
    LET quotes == {i \in 1..Len(q) : q[i] = QUOTE}
        bare == Without(q, QUOTE)
        colons == {i \in 1..Len(bare) : bare[i] = COLON}
    IN IF Cardinality(quotes) % 2 = 1
       THEN [status |-> "Err", fields |-> {}, term |-> <<>>]
       ELSE IF colons = {}
       THEN [status |-> "Ok", fields |-> defaultFields, term |-> bare]
       ELSE LET c == CHOOSE i \in colons : \A j \in colons : i <= j
                f == SubSeq(bare, 1, c - 1)
                t == SubSeq(bare, c + 1, Len(bare))
            IN IF f = FieldWord
               THEN [status |-> "Ok", fields |-> {"word"}, term |-> t]
               ELSE IF f = FieldDefinition
               THEN [status |-> "Ok", fields |-> {"definition"}, term |-> t]
               ELSE [status |-> "Err", fields |-> {}, term |-> <<>>]

\* occurrences of the term among the tokens of the queried fields; stands for
\* the engine's relevance score
Score(entry, pq) ==
    LET wordTokens == Tokenize(entry.word, <<>>)
        defTokens == Tokenize(entry.definition, <<>>)
    IN (IF "word" \in pq.fields
        THEN Cardinality({i \in 1..Len(wordTokens) : wordTokens[i] = pq.term})
        ELSE 0)
       + (IF "definition" \in pq.fields
          THEN Cardinality({i \in 1..Len(defTokens) : defTokens[i] = pq.term})
          ELSE 0)

\* the highest score among the documents of the searcher
TopScore(idx, pq) ==
    LET scores == {Score(idx[i], pq) : i \in 1..Len(idx)}
    IN IF scores = {} THEN 0 ELSE CHOOSE m \in scores : \A x \in scores : x <= m

\* the documents of each score from `level` down to 1, in address order
RECURSIVE BestFirst(_, _, _)
BestFirst(idx, pq, level) ==
    IF level <= 0 THEN <<>>
    ELSE SelectSeq(idx, LAMBDA e : Score(e, pq) = level) \o BestFirst(idx, pq, level - 1)

\* the matching documents, best first: higher score, then lower address
Ranked(idx, pq) == BestFirst(idx, pq, TopScore(idx, pq))

\* a variant that ignores the limit
TopDocsUnlimited(idx, pq, limit) == Ranked(idx, pq)

\* self.searcher.search(&query, &TopDocs::with_limit(limit)) and the mapping
\* of the hits back to Entry values
TopDocs(idx, pq, limit) ==
    LET ranked == Ranked(idx, pq)
    IN SubSeq(ranked, 1, IF Len(ranked) < limit THEN Len(ranked) ELSE limit)

\* limit.unwrap_or(10)
UnwrapOr(limit, default) == IF limit = NoLimit THEN default ELSE limit

\* Dictionary::search: the outcomes of one call. TopDocs::with_limit rejects
\* a limit of 0 in the engine versions that assert on it
SearchOutcomes(idx, q, limit) ==
    LET pq == ParseQuery(q, {"word", "definition"})
        n == UnwrapOr(limit, DefaultLimit)
    IN IF pq.status = "Err" THEN {[status |-> "Err", hits |-> <<>>]}
       ELSE IF n = 0
       THEN {[status |-> "panic", hits |-> <<>>], [status |-> "Ok", hits |-> <<>>]}
       ELSE {[status |-> "Ok", hits |-> TopDocs(idx, pq, n)]}

\* Dictionary::define
DefineOutcome(idx, q) ==
    LET pq == ParseQuery(q, {"word"})
    IN IF pq.status = "Err" THEN [status |-> "Err", hits |-> <<>>]
       ELSE [status |-> "Ok", hits |-> TopDocs(idx, pq, DefineLimit)]

\* query strings: a term, an absent term, explicit fields, an unbalanced
\* quote, an unknown field, a quoted term
Queries ==
    { <<"a">>,
      <<"z">>,
      FieldDefinition \o <<COLON, "a">>,
      FieldWord \o <<COLON, "a">>,
      <<QUOTE, "a">>,
      <<"x", COLON, "a">>,
      <<QUOTE, "a", QUOTE>> }

EntryWordA == [word |-> <<"a">>, definition |-> <<"b", SP, "c">>]
EntryDefA == [word |-> <<"b">>, definition |-> <<"c", SP, "a", SP, "a">>]
EntryOther == [word |-> <<"c">>, definition |-> <<"c">>]

RECURSIVE Copies(_, _)
Copies(e, n) == IF n = 0 THEN <<>> ELSE <<e>> \o Copies(e, n - 1)

\* indexes of up to MaxEntries entries that carry "a" as headword or only in
\* the definition, plus one unrelated entry
Indexes ==
    { Copies(EntryWordA, nw) \o <<EntryOther>> \o Copies(EntryDefA, nd) :
        nw \in 0..MaxEntries, nd \in 0..MaxEntries }

InitIndex ==
    /\ index \in {i \in Indexes : Len(i) <= MaxEntries + 1}
    /\ lastOp = "none"
    /\ lastQuery = <<>>
    /\ lastLimit = NoLimit
    /\ lastResult = NoHits
    /\ ParseIdle
    /\ CliIdle

\* dictionary.search(query, limit)
Search ==
    \E q \in Queries, limit \in {NoLimit} \cup 0..MaxLimit :
        /\ lastOp' = "search"
        /\ lastQuery' = q
        /\ lastLimit' = limit
        /\ lastResult' \in SearchOutcomes(index, q, limit)
        /\ UNCHANGED <<index, parseVars, cliVars>>

\* dictionary.define(query)
Define ==
    \E q \in Queries :
        /\ lastOp' = "define"
        /\ lastQuery' = q
        /\ lastLimit' = NoLimit
        /\ lastResult' = DefineOutcome(index, q)
        /\ UNCHANGED <<index, parseVars, cliVars>>

NextIndex ==
    \/ Search
    \/ Define

SpecIndex == InitIndex /\ [][NextIndex]_vars

(***************************************************************************)
(* Properties of search and define.                                        *)
(***************************************************************************)
\* the indexed entries the query matches in either field
SearchMatchCount ==
    Cardinality({i \in 1..Len(index) :
                    Score(index[i], ParseQuery(lastQuery, {"word", "definition"})) > 0})

\* C6: search returns at most N entries for Some(N), at most 10 for None, and
\* exactly 10 for None when at least 10 indexed entries match
C6_SearchLimit ==
    (lastOp = "search" /\ lastResult.status = "Ok") =>
        /\ lastLimit # NoLimit => Len(lastResult.hits) <= lastLimit
        /\ lastLimit = NoLimit => Len(lastResult.hits) <= 10
        /\ lastLimit = NoLimit /\ SearchMatchCount >= 10 => Len(lastResult.hits) = 10

C6_Witness ==
    /\ lastOp = "search"
    /\ lastResult.status = "Ok"
    /\ lastLimit = NoLimit
    /\ SearchMatchCount > 10
    /\ Len(lastResult.hits) = 10

\* the term a query asks for, whatever field it names
QueryTerm(q) == ParseQuery(q, {"word"}).term

\* C7: define returns at most 10 entries, each matching the query in its word
\* field, for every query the grammar accepts
C7_DefineWordOnly ==
    (lastOp = "define" /\ lastResult.status = "Ok") =>
        /\ Len(lastResult.hits) <= 10
        /\ \A k \in 1..Len(lastResult.hits) :
              \E i \in 1..Len(Tokenize(lastResult.hits[k].word, <<>>)) :
                  Tokenize(lastResult.hits[k].word, <<>>)[i] = QueryTerm(lastQuery)

(***************************************************************************)
(* main: the loader task, the oneshot channel and the select loop.         *)
(***************************************************************************)
CliDocuments ==
    { <<>>,
      << <<ElementWithId("a", IdWord1, <<>>), Element("b", <<TextNode(<<"a">>)>>),
           Element("i", <<TextNode(<<"a", NL, "b">>)>>)>>,
         <<ElementWithId("a", IdWord1, <<>>), Element("b", <<TextNode(<<SP, "b", NL>>)>>)>> >>,
      << <<TextNode(<<"a">>), Element("b", <<TextNode(<<"a">>)>>)>>,
         <<ElementWithId("a", IdWord1, <<>>), Element("b", <<TextNode(<<"a">>)>>)>> >>,
      << <<ElementWithId("a", IdWord1, <<>>), Element("b", <<TextNode(<<"a">>)>>)>>,
         <<ElementWithId("a", IdWord1, <<>>), Element("i", <<TextNode(<<NL>>)>>)>> >> }

CliTerms ==
    { <<"a">>, <<"z">>, <<QUOTE, "a">>, FieldDefinition \o <<COLON, "b">> }

InitCli ==
    /\ source \in {"url", "file", "none"}
    /\ command \in {"search", "define"}
    /\ term \in CliTerms
    /\ document \in CliDocuments
    /\ pc = "idle"
    /\ pos = 0
    /\ entries = <<>>
    /\ result = "none"
    /\ pass = 1
    /\ firstPass = <<"none", <<>>>>
    /\ loaderPc = "start"
    /\ chan = "empty"
    /\ dict = <<>>
    /\ mainPc = "select"
    /\ tickReady = TRUE
    /\ queries = 0
    /\ output = "none"
    /\ exitCode = -1
    /\ IndexIdle

loaderVars == <<source, command, term, mainPc, tickReady, queries, output, exitCode>>

\* cli.url is Some: parse_url(url).await, which fetches the page and extracts
\* as parse does
LoaderCallsParseUrl ==
    /\ loaderPc = "start"
    /\ source = "url"
    /\ loaderPc' = "parsing"
    /\ pc' = "read"
    /\ UNCHANGED <<document, pos, entries, result, pass, firstPass, indexVars,
                   chan, dict, loaderVars>>

\* cli.file is Some: parse(&file)
LoaderCallsParse ==
    /\ loaderPc = "start"
    /\ source = "file"
    /\ loaderPc' = "parsing"
    /\ pc' = "read"
    /\ UNCHANGED <<document, pos, entries, result, pass, firstPass, indexVars,
                   chan, dict, loaderVars>>

\* neither is given: todo!() panics the task, which drops tx
LoaderTodo ==
    /\ loaderPc = "start"
    /\ source = "none"
    /\ loaderPc' = "panicked"
    /\ chan' = "closed"
    /\ UNCHANGED <<parseVars, indexVars, dict, loaderVars>>

\* the parse call is over: .expect("Couldn't parse HTML") and tx.send(dict), or
\* the task dies (parse panicked, or expect panics on Err) and drops tx
LoaderFinishes ==
    /\ loaderPc = "parsing"
    /\ pc = "done"
    /\ IF result = "Ok"
       THEN /\ loaderPc' = "sent"
            /\ chan' = "value"
            /\ dict' = index
       ELSE /\ loaderPc' = "panicked"
            /\ chan' = "closed"
            /\ dict' = dict
    /\ UNCHANGED <<parseVars, indexVars, loaderVars>>

\* the interval's period elapses
TimePasses ==
    /\ mainPc = "select"
    /\ ~tickReady
    /\ tickReady' = TRUE
    /\ UNCHANGED <<parseVars, indexVars, source, command, term, loaderPc, chan,
                   dict, mainPc, queries, output, exitCode>>

\* a variant in which the tick branch leaves the loop
TickBranchBreaks ==
    /\ mainPc = "select"
    /\ tickReady
    /\ tickReady' = FALSE
    /\ mainPc' = "done"
    /\ exitCode' = 0
    /\ UNCHANGED <<parseVars, indexVars, source, command, term, loaderPc, chan,
                   dict, queries, output>>

\* _ = intv.tick() => stdout().flush(); the loop goes round
TickBranch ==
    /\ mainPc = "select"
    /\ tickReady
    /\ tickReady' = FALSE
    /\ UNCHANGED <<parseVars, indexVars, source, command, term, loaderPc, chan,
                   dict, mainPc, queries, output, exitCode>>

\* what the rx branch meets: the outcome of the query on Ok(dict), or the
\* RecvError of a dropped sender
RecvOutcomes ==
    IF chan = "closed" THEN {[status |-> "RecvError", hits |-> <<>>]}
    ELSE IF command = "search" THEN SearchOutcomes(dict, term, NoLimit)
    ELSE {DefineOutcome(dict, term)}

\* result = &mut rx => { ... break }: the query on Ok(dict), whose expect
\* panics main on Err; "Failed to load dictionary" on a closed channel
RecvBranch ==
    /\ mainPc = "select"
    /\ chan \in {"value", "closed"}
    /\ \E outcome \in RecvOutcomes :
          /\ queries' = (IF chan = "value" THEN queries + 1 ELSE queries)
          /\ lastOp' = (IF chan = "value" THEN command ELSE lastOp)
          /\ lastQuery' = (IF chan = "value" THEN term ELSE lastQuery)
          /\ lastResult' = (IF chan = "value" THEN outcome ELSE lastResult)
          /\ output' = (IF outcome.status = "Ok" THEN "results"
                        ELSE IF outcome.status = "RecvError" THEN "failed"
                        ELSE output)
          /\ mainPc' = (IF outcome.status \in {"Ok", "RecvError"} THEN "done"
                        ELSE "panicked")
          /\ exitCode' = (IF outcome.status \in {"Ok", "RecvError"} THEN 0 ELSE 101)
    /\ UNCHANGED <<parseVars, index, lastLimit, source, command, term, loaderPc,
                   chan, dict, tickReady>>

NextCli ==
    \/ LoaderCallsParseUrl
    \/ LoaderCallsParse
    \/ LoaderTodo
    \/ ReadFails
    \/ ReadSucceeds
    \/ NextParagraph
    \/ BuildDictionary
    \/ LoaderFinishes
    \/ TimePasses
    \/ TickBranch
    \/ RecvBranch

\* select! polls rx on every turn of the loop, and between two ticks rx is the
\* only branch that can be ready: a ready rx is eventually taken
SpecCli == InitCli /\ [][NextCli]_vars /\ WF_vars(RecvBranch)

(***************************************************************************)
(* Properties of main.                                                     *)
(***************************************************************************)
LoaderFinished == loaderPc \in {"sent", "panicked"}
LoopLeft == mainPc # "select"
TermInvalid == ParseQuery(term, {"word", "definition"}).status = "Err"

\* C1: the exit status is non-zero exactly when loading failed, the document
\* was malformed, or the query did not parse
C1_ExitStatus ==
    exitCode # -1 =>
        (exitCode # 0 <=> (loaderPc = "panicked" \/ (loaderPc = "sent" /\ TermInvalid)))

\* C5: a term that does not parse is reported for that query and does not
\* crash the process
C5_InvalidQueryNoCrash ==
    (queries = 1 /\ TermInvalid) =>
        /\ lastResult.status = "Err"
        /\ mainPc # "panicked"
        /\ dict = index

\* C10: once the loader task is over the loop is left; it is left only then;
\* after a send the query ran exactly once; after a dropped sender no query
\* ran and the failure was reported
C10_LoopTerminates ==
    /\ LoaderFinished ~> LoopLeft
    /\ [](/\ LoopLeft => LoaderFinished
          /\ queries = 0 \/ (queries = 1 /\ loaderPc = "sent" /\ LoopLeft)
          /\ (LoopLeft /\ loaderPc = "sent") => queries = 1
          /\ (LoopLeft /\ loaderPc = "panicked") =>
                (queries = 0 /\ output = "failed" /\ mainPc = "done"))

C10_Witness ==
    /\ loaderPc = "panicked"
    /\ mainPc = "done"
    /\ output = "failed"
    /\ ~tickReady
    /\ result = "panic"

====
